---- MODULE Spec2Model ----
(***************************************************************************)
(* Dual Sensor Flicker Monitor: the renderer component (App) with its      *)
(* flicker detector and recipe executor, and the main process with its     *)
(* IPC handlers.  Renderer and main exchange messages over two FIFO        *)
(* channels: toMain carries ipcRenderer.invoke calls, toRenderer carries   *)
(* the replies that resume the awaiting renderer code.                     *)
(***************************************************************************)
EXTENDS Integers, Sequences, FiniteSets, TLC

\* ------------------------------------------------------------- bounds
\* samples evaluated by the detector in one behaviour (each takes a timestamp)
MaxSamples == 4
\* the same, where recipes run beside the detector
MaxSessionSamples == 3
\* steps the recipe builder accepts
MaxRecipeLen == 2
\* button-initiated IPC calls awaiting their reply at the same time
MaxUiCalls == 1
\* log messages still queued for main when the next sample is delivered
MaxBacklog == 0
\* largest amount of time (ms) one Tick lets pass
TickMs == 2500

\* ---------------------------------------------------- program constants
FLICKER_THRESHOLD == 1
SettleMs == 100
DelaySeconds == 5

\* ---------------------------------------------------------------- values
SensorIds == {"sensor1", "sensor2"}

\* null / an object reference
None == <<>>
Some(x) == <<x>>

\* readings the serial line delivers to the detector: on sensor1 the baseline
\* 100, a 1% change (99), a 2% change (98) and the reading 0; on sensor2 the
\* baseline and a 2% change
DetectorSamples ==
  { [sensor1 |-> 100, sensor2 |-> 100], [sensor1 |-> 99, sensor2 |-> 100],
    [sensor1 |-> 0, sensor2 |-> 100], [sensor1 |-> 98, sensor2 |-> 98] }

\* readings delivered while recipes run beside the detector
SessionSamples ==
  { [sensor1 |-> 100, sensor2 |-> 100], [sensor1 |-> 98, sensor2 |-> 100] }

\* readings of Scenario A: sensor1 at its baseline 100 and at 80
ScenarioSamples ==
  { [sensor1 |-> 100, sensor2 |-> 100], [sensor1 |-> 80, sensor2 |-> 100] }

\* readings delivered to the mounted listener, which only displays them
DisplaySamples ==
  { [sensor1 |-> 100, sensor2 |-> 100], [sensor1 |-> 98, sensor2 |-> 100] }

Abs(x) == IF x < 0 THEN -x ELSE x

\* JavaScript numbers that a percentage can be: a finite ratio num/den (already
\* multiplied by 100), Infinity, or NaN
Fin(n, d) == [kind |-> "fin", num |-> n, den |-> d]
Infinity == [kind |-> "inf", num |-> 0, den |-> 1]
NaN == [kind |-> "nan", num |-> 0, den |-> 1]

\* x > t and x < t for a percentage x and an integer t; every comparison with
\* NaN is false
GreaterThan(x, t) ==
  \/ x.kind = "inf"
  \/ x.kind = "fin" /\ x.num > t * x.den

LessThan(x, t) == x.kind = "fin" /\ x.num < t * x.den

MathMax(a, b) ==
  IF a.kind = "nan" \/ b.kind = "nan" THEN NaN
  ELSE IF a.kind = "inf" \/ b.kind = "inf" THEN Infinity
  ELSE IF a.num * b.den >= b.num * a.den THEN a ELSE b

MathMin(a, b) == IF a <= b THEN a ELSE b

\* Math.abs(((lastValue - currentValue) / lastValue) * 100)
absPercentChange(lastValue, currentValue) ==
  IF lastValue = 0
  THEN IF currentValue = 0 THEN NaN ELSE Infinity
  ELSE Fin(Abs(lastValue - currentValue) * 100, Abs(lastValue))

\* Math.abs((currentValue - initialValue) / initialValue) * 100
returnPercentChange(currentValue, initialValue) ==
  IF initialValue = 0
  THEN IF currentValue = 0 THEN NaN ELSE Infinity
  ELSE Fin(Abs(currentValue - initialValue) * 100, Abs(initialValue))

\* the last `width` decimal digits of n, with leading zeros
RECURSIVE Digits(_, _)
Digits(n, width) ==
  IF width = 0 THEN ""
  ELSE Digits(n \div 10, width - 1) \o ToString(n % 10)

RECURSIVE Pow10(_)
Pow10(k) == IF k = 0 THEN 1 ELSE 10 * Pow10(k - 1)

\* Number.prototype.toFixed(digits): the decimal with `digits` fraction digits
\* nearest to x, the larger one of two equally near; Infinity and NaN by name
toFixed(x, digits) ==
  IF x.kind = "nan" THEN "NaN"
  ELSE IF x.kind = "inf" THEN "Infinity"
  ELSE LET negative == x.num # 0 /\ ((x.num < 0) # (x.den < 0))
           d == Abs(x.den)
           q == (2 * Abs(x.num) * Pow10(digits) + d) \div (2 * d)
       IN (IF negative THEN "-" ELSE "")
            \o ToString(q \div Pow10(digits))
            \o (IF digits = 0 THEN ""
                ELSE "." \o Digits(q % Pow10(digits), digits))

\* ------------------------------------------------------------- state
VARIABLES
  \* renderer: React state of App
  isConnected, status, sensorData, recipe, isRunningRecipe,
  isFlickerDetectionRunning, flickerCount,
  \* renderer: refs
  lastValues, activeFlickers,
  \* renderer: the runRecipe call in progress, and its pending setTimeout
  run, timer,
  \* main process
  portOpen, isFlickerDetectionActive, logFiles, sensorRows, flickerRows,
  \* main process: the interval dataInterval refers to ("undefined" before the
  \* first setInterval, then "live" or "cleared") and the send-command call
  \* awaiting its serial write
  dataInterval, pendingWrite,
  \* IPC
  toMain, toRenderer,
  \* new Date() as read by the detector: the ordinal of the evaluated sample
  timestamp,
  \* history: runRecipe calls that have not returned
  executions

rendererVars == <<isConnected, status, sensorData, recipe, isRunningRecipe,
                  isFlickerDetectionRunning>>
detectorVars == <<flickerCount, lastValues, activeFlickers, timestamp>>
recipeVars == <<run, timer, executions>>
heartbeatVars == <<dataInterval, pendingWrite>>
mainVars == <<portOpen, isFlickerDetectionActive, logFiles, sensorRows,
              flickerRows, heartbeatVars>>
ipcVars == <<toMain, toRenderer>>

vars == <<rendererVars, detectorVars, recipeVars, mainVars, ipcVars>>

StepTypes == {"startFlicker", "endFlicker", "connectUSB", "disconnectUSB",
              "sleep", "wake", "delay"}

IdleRun == [pc |-> "idle", idx |-> 0, recipe |-> <<>>, running |-> FALSE,
            executed |-> <<>>, settles |-> 0, waited |-> 0, failedStep |-> 0]

Init ==
  /\ isConnected = FALSE
  /\ status = <<"Disconnected">>
  /\ sensorData = [sensor1 |-> 0, sensor2 |-> 0]
  /\ recipe = <<>>
  /\ isRunningRecipe = FALSE
  /\ isFlickerDetectionRunning = FALSE
  /\ flickerCount = [s \in SensorIds |-> 0]
  /\ lastValues = [s \in SensorIds |-> None]
  /\ activeFlickers = [s \in SensorIds |-> None]
  /\ run = IdleRun
  /\ timer = 0
  /\ portOpen = FALSE
  /\ isFlickerDetectionActive = FALSE
  /\ logFiles = FALSE
  /\ sensorRows = 0
  /\ flickerRows = <<>>
  /\ dataInterval = "undefined"
  /\ pendingWrite = None
  /\ toMain = <<>>
  /\ toRenderer = <<>>
  /\ timestamp = 0
  /\ executions = 0

\* ------------------------------------------------------------ detector
\* openFlicker without the test that no run is open
openFlickerUnguarded(lastValue, active, currentValue, ts) ==
  IF GreaterThan(absPercentChange(lastValue, currentValue), FLICKER_THRESHOLD)
  THEN Some([startTime |-> ts, initialValue |-> lastValue,
             minValue |-> currentValue,
             maxPercentChange |-> absPercentChange(lastValue, currentValue)])
  ELSE active

\* openFlicker with >= in place of >
openFlickerInclusive(lastValue, active, currentValue, ts) ==
  IF /\ ~LessThan(absPercentChange(lastValue, currentValue), FLICKER_THRESHOLD)
     /\ active = None
  THEN Some([startTime |-> ts, initialValue |-> lastValue,
             minValue |-> currentValue,
             maxPercentChange |-> absPercentChange(lastValue, currentValue)])
  ELSE active

\* "Check for start of flicker": the run the sensor has after the opening test
openFlicker(lastValue, active, currentValue, ts) ==
  IF /\ GreaterThan(absPercentChange(lastValue, currentValue), FLICKER_THRESHOLD)
     /\ active = None
  THEN Some([startTime |-> ts, initialValue |-> lastValue,
             minValue |-> currentValue,
             maxPercentChange |-> absPercentChange(lastValue, currentValue)])
  ELSE active

\* "Update active flicker"
updateFlicker(flicker, lastValue, currentValue) ==
  [flicker EXCEPT
     !.minValue = MathMin(@, currentValue),
     !.maxPercentChange = MathMax(@, absPercentChange(lastValue, currentValue))]

\* endsFlicker with <= in place of <
endsFlickerInclusive(flicker, currentValue) ==
  ~GreaterThan(returnPercentChange(currentValue, flicker.initialValue),
               FLICKER_THRESHOLD)

\* endsFlicker measuring the return from the run's minValue
endsFlickerFromMinimum(flicker, currentValue) ==
  LessThan(returnPercentChange(currentValue, flicker.minValue),
           FLICKER_THRESHOLD)

\* "Check for end of flicker"
endsFlicker(flicker, currentValue) ==
  LessThan(returnPercentChange(currentValue, flicker.initialValue),
           FLICKER_THRESHOLD)

\* the flickerData object handed to log-flicker (its duration is endTime less
\* startTime)
flickerData(sensorId, flicker, ts) ==
  [sensor |-> sensorId, startTime |-> flicker.startTime, endTime |-> ts,
   initialValue |-> toFixed(Fin(flicker.initialValue, 1), 3),
   minimumValue |-> toFixed(Fin(flicker.minValue, 1), 3),
   percentChange |-> toFixed(flicker.maxPercentChange, 2)]

\* one sensor's pass through the forEach body: its new lastValue and
\* activeFlicker, and the flickerData of the run it closed (None if none)
processSensor(sensorId, lastValue, active, currentValue, ts) ==
  IF lastValue = None
  THEN [lastValue |-> Some(currentValue), activeFlicker |-> active,
        closed |-> None]
  ELSE LET opened == openFlicker(lastValue[1], active, currentValue, ts) IN
       IF opened = None
       THEN [lastValue |-> Some(currentValue), activeFlicker |-> None,
             closed |-> None]
       ELSE LET flicker == updateFlicker(opened[1], lastValue[1], currentValue) IN
            IF endsFlicker(flicker, currentValue)
            THEN [lastValue |-> Some(currentValue), activeFlicker |-> None,
                  closed |-> Some(flickerData(sensorId, flicker, ts))]
            ELSE [lastValue |-> Some(currentValue),
                  activeFlicker |-> Some(flicker), closed |-> None]

\* incrementCount that adds one to every sensor's count
incrementEveryCount(prev, sensorId) == [s \in SensorIds |-> prev[s] + 1]

\* setFlickerCount(prev => ({...prev, [sensorId]: prev[sensorId] + 1}))
incrementCount(prev, sensorId) == [prev EXCEPT ![sensorId] = @ + 1]

\* resetFlickerDetection that leaves the two refs as they are
resetFlickerCountOnly ==
  /\ flickerCount' = [s \in SensorIds |-> 0]
  /\ UNCHANGED <<lastValues, activeFlickers>>

\* resetFlickerDetection that leaves the two counts as they are
resetFlickerRefsOnly ==
  /\ lastValues' = [s \in SensorIds |-> None]
  /\ activeFlickers' = [s \in SensorIds |-> None]
  /\ UNCHANGED flickerCount

resetFlickerDetection ==
  /\ lastValues' = [s \in SensorIds |-> None]
  /\ activeFlickers' = [s \in SensorIds |-> None]
  /\ flickerCount' = [s \in SensorIds |-> 0]

\* ------------------------------------------------------------------ IPC
Msg(op, by, data) == [op |-> op, by |-> by, data |-> data]
Reply(m, ok, error) == [op |-> m.op, by |-> m.by, ok |-> ok, error |-> error]

IsLog(m) == m.op \in {"log-data", "log-flicker"}
IsUi(m) == m.by = "ui"
Backlog == Cardinality({i \in DOMAIN toMain : IsLog(toMain[i])})
UiCalls ==
  Cardinality({i \in DOMAIN toMain : IsUi(toMain[i])})
    + Cardinality({i \in DOMAIN toRenderer : IsUi(toRenderer[i])})

\* ------------------------------------------------- renderer: sensor data
\* the listener seeing the state of the current render
currentIsFlickerDetectionRunning == isFlickerDetectionRunning

\* isFlickerDetectionRunning as the listener registered by the mount effect
\* sees it: the effect has no dependencies, so 'sensor-data' stays bound to the
\* handleSensorData of the first render, whose state is useState(false)
mountedIsFlickerDetectionRunning == FALSE

\* the runs a sample closed, as the log-flicker calls it makes, sensor1 first
ClosedBy(r) ==
  (IF r["sensor1"].closed = None THEN <<>> ELSE r["sensor1"].closed)
    \o (IF r["sensor2"].closed = None THEN <<>> ELSE r["sensor2"].closed)

\* the flicker count after the setFlickerCount calls of one sample
RECURSIVE CountAll(_, _)
CountAll(prev, closed) ==
  IF closed = <<>> THEN prev
  ELSE CountAll(incrementCount(prev, Head(closed).sensor), Tail(closed))

\* handleSensorData(event, data), run by a closure in which
\* isFlickerDetectionRunning has the value `running`; the detector evaluates at
\* most `limit` samples
HandleSensorData(running, data, limit) ==
  /\ portOpen
  /\ sensorData' = data
  /\ IF running
     THEN /\ timestamp < limit
          /\ Backlog <= MaxBacklog
          /\ LET ts == timestamp + 1
                 r == [s \in SensorIds |->
                         processSensor(s, lastValues[s], activeFlickers[s],
                                       data[s], ts)]
                 closed == ClosedBy(r)
             IN /\ timestamp' = ts
                /\ lastValues' = [s \in SensorIds |-> r[s].lastValue]
                /\ activeFlickers' = [s \in SensorIds |-> r[s].activeFlicker]
                /\ flickerCount' = CountAll(flickerCount, closed)
                /\ toMain' = toMain
                     \o [i \in DOMAIN closed |->
                           Msg("log-flicker", "none", Some(closed[i]))]
                     \o << Msg("log-data", "none", None) >>
     ELSE UNCHANGED <<timestamp, lastValues, activeFlickers, flickerCount,
                      toMain>>
  /\ UNCHANGED <<isConnected, status, recipe, isRunningRecipe,
                 isFlickerDetectionRunning, recipeVars, mainVars, toRenderer>>

\* ---------------------------------------------------- renderer: buttons
\* the Connect / Disconnect button: toggleConnection up to its await
ToggleConnection ==
  /\ UiCalls < MaxUiCalls
  /\ toMain' = Append(toMain,
       Msg(IF isConnected THEN "disconnect-port" ELSE "connect-port", "ui", None))
  /\ UNCHANGED <<rendererVars, detectorVars, recipeVars, mainVars, toRenderer>>

\* the Start / Stop Flicker Detection button (disabled while not connected):
\* toggleFlickerDetection up to its await
ToggleFlickerDetection ==
  /\ isConnected
  /\ UiCalls < MaxUiCalls
  /\ toMain' = Append(toMain,
       Msg(IF isFlickerDetectionRunning THEN "stop-flicker-detection"
           ELSE "start-flicker-detection", "ui", None))
  /\ UNCHANGED <<rendererVars, detectorVars, recipeVars, mainVars, toRenderer>>

\* toggleConnection after its await
ToggleConnectionResume ==
  /\ toRenderer # <<>>
  /\ LET m == Head(toRenderer) IN
     /\ m.by = "ui"
     /\ m.op \in {"connect-port", "disconnect-port"}
     /\ IF m.op = "connect-port"
        THEN /\ IF m.ok
                THEN isConnected' = TRUE /\ status' = <<"Connected">>
                ELSE isConnected' = isConnected /\ status' = <<"Error", m.error>>
             /\ UNCHANGED <<lastValues, activeFlickers, flickerCount>>
        ELSE /\ isConnected' = FALSE
             /\ status' = <<"Disconnected">>
             /\ resetFlickerDetection
  /\ toRenderer' = Tail(toRenderer)
  /\ UNCHANGED <<sensorData, recipe, isRunningRecipe, isFlickerDetectionRunning,
                 timestamp, recipeVars, mainVars, toMain>>

\* toggleFlickerDetection after its await, for the reply m
AfterToggle(m) ==
  IF m.op = "start-flicker-detection"
  THEN IF m.ok
       THEN /\ isFlickerDetectionRunning' = TRUE
            /\ status' = <<"Flicker Detection Running">>
            /\ resetFlickerDetection
       ELSE /\ status' = <<"Error", m.error>>
            /\ UNCHANGED <<isFlickerDetectionRunning, lastValues,
                           activeFlickers, flickerCount>>
  ELSE IF m.ok
       THEN /\ isFlickerDetectionRunning' = FALSE
            /\ status' = <<"Flicker Detection Stopped">>
            /\ UNCHANGED <<lastValues, activeFlickers, flickerCount>>
       ELSE /\ status' = <<"Error", m.error>>
            /\ UNCHANGED <<isFlickerDetectionRunning, lastValues,
                           activeFlickers, flickerCount>>

ToggleFlickerDetectionResume ==
  /\ toRenderer # <<>>
  /\ LET m == Head(toRenderer) IN
     /\ m.by = "ui"
     /\ m.op \in {"start-flicker-detection", "stop-flicker-detection"}
     /\ AfterToggle(m)
  /\ toRenderer' = Tail(toRenderer)
  /\ UNCHANGED <<isConnected, sensorData, recipe, isRunningRecipe, timestamp,
                 recipeVars, mainVars, toMain>>

\* ------------------------------------------------------- main: handlers
\* if (dataInterval) clearInterval(dataInterval): the value dataInterval has
\* afterwards
clearInterval(interval) == IF interval = "live" THEN "cleared" ELSE interval

\* dataInterval = setInterval(...): the variable refers to the new interval; the
\* one it referred to, if live, stays live with nothing left to clear it
setInterval == dataInterval' = "live"

\* every handler serves the oldest call in toMain
Serving(op) == toMain # <<>> /\ Head(toMain).op = op

\* ipcMain.handle('connect-port'): the port opens, or 'error' rejects the wait
ConnectPort ==
  /\ Serving("connect-port")
  /\ \E opened \in BOOLEAN :
       /\ portOpen' = opened
       /\ IF opened THEN setInterval ELSE UNCHANGED dataInterval
       /\ toRenderer' = Append(toRenderer,
            Reply(Head(toMain), opened, IF opened THEN "" ELSE "open failed"))
  /\ toMain' = Tail(toMain)
  /\ UNCHANGED <<rendererVars, detectorVars, recipeVars,
                 isFlickerDetectionActive, logFiles, sensorRows, flickerRows,
                 pendingWrite>>

\* ipcMain.handle('disconnect-port')
DisconnectPort ==
  /\ Serving("disconnect-port")
  /\ dataInterval' = clearInterval(dataInterval)
  /\ portOpen' = FALSE
  /\ isFlickerDetectionActive' = FALSE
  /\ toRenderer' = Append(toRenderer, Reply(Head(toMain), TRUE, ""))
  /\ toMain' = Tail(toMain)
  /\ UNCHANGED <<rendererVars, detectorVars, recipeVars, logFiles, sensorRows,
                 flickerRows, pendingWrite>>

\* ipcMain.handle('start-flicker-detection'): sensorLogFile and flickerLogFile
\* are pointed at two new files before these are written; a write that throws
\* leaves the session flag as it was.  sensorRows and flickerRows are the rows
\* of the files the two paths name.
StartFlickerDetection ==
  /\ Serving("start-flicker-detection")
  /\ IF ~portOpen
     THEN /\ toRenderer' = Append(toRenderer,
               Reply(Head(toMain), FALSE, "Serial port is not connected"))
          /\ UNCHANGED <<logFiles, isFlickerDetectionActive, sensorRows,
                         flickerRows>>
     ELSE \E written \in BOOLEAN :
            /\ logFiles' = TRUE
            /\ sensorRows' = 0
            /\ flickerRows' = <<>>
            /\ isFlickerDetectionActive' = (written \/ isFlickerDetectionActive)
            /\ toRenderer' = Append(toRenderer,
                 Reply(Head(toMain), written,
                       IF written THEN "" ELSE "write failed"))
  /\ toMain' = Tail(toMain)
  /\ UNCHANGED <<rendererVars, detectorVars, recipeVars, portOpen,
                 heartbeatVars>>

\* ipcMain.handle('stop-flicker-detection')
StopFlickerDetection ==
  /\ Serving("stop-flicker-detection")
  /\ isFlickerDetectionActive' = FALSE
  /\ toRenderer' = Append(toRenderer, Reply(Head(toMain), TRUE, ""))
  /\ toMain' = Tail(toMain)
  /\ UNCHANGED <<rendererVars, detectorVars, recipeVars, portOpen, logFiles,
                 sensorRows, flickerRows, heartbeatVars>>

\* ipcMain.handle('send-command') up to its await: it fails on a closed port,
\* otherwise clears the heartbeat and hands the command to serialPort.write.
\* runRecipe awaits each command, so no other write is pending.
SendCommand ==
  /\ Serving("send-command")
  /\ pendingWrite = None
  /\ IF ~portOpen
     THEN /\ toRenderer' = Append(toRenderer,
               Reply(Head(toMain), FALSE, "Serial port is not open"))
          /\ UNCHANGED <<dataInterval, pendingWrite>>
     ELSE /\ dataInterval' = clearInterval(dataInterval)
          /\ pendingWrite' = Some(Head(toMain))
          /\ UNCHANGED toRenderer
  /\ toMain' = Tail(toMain)
  /\ UNCHANGED <<rendererVars, detectorVars, recipeVars, portOpen,
                 isFlickerDetectionActive, logFiles, sensorRows, flickerRows>>

\* send-command after its await: the write's callback reports success, and the
\* heartbeat is started again if dataInterval was ever set, or an error
SendCommandWritten ==
  /\ pendingWrite # None
  /\ \E written \in BOOLEAN :
       /\ IF written /\ dataInterval # "undefined" THEN setInterval
          ELSE UNCHANGED dataInterval
       /\ toRenderer' = Append(toRenderer,
            Reply(pendingWrite[1], written,
                  IF written THEN "" ELSE "write failed"))
  /\ pendingWrite' = None
  /\ UNCHANGED <<rendererVars, detectorVars, recipeVars, portOpen,
                 isFlickerDetectionActive, logFiles, sensorRows, flickerRows,
                 toMain>>

\* ipcMain.handle('log-data'); the renderer never reads the result
LogData ==
  /\ Serving("log-data")
  /\ sensorRows' = IF logFiles /\ isFlickerDetectionActive
                   THEN sensorRows + 1 ELSE sensorRows
  /\ toMain' = Tail(toMain)
  /\ UNCHANGED <<rendererVars, detectorVars, recipeVars, portOpen,
                 isFlickerDetectionActive, logFiles, flickerRows, heartbeatVars,
                 toRenderer>>

\* ipcMain.handle('log-flicker'); the renderer never reads the result
LogFlicker ==
  /\ Serving("log-flicker")
  /\ flickerRows' = IF logFiles /\ isFlickerDetectionActive
                    THEN Append(flickerRows, Head(toMain).data[1])
                    ELSE flickerRows
  /\ toMain' = Tail(toMain)
  /\ UNCHANGED <<rendererVars, detectorVars, recipeVars, portOpen,
                 isFlickerDetectionActive, logFiles, sensorRows, heartbeatVars,
                 toRenderer>>

\* ------------------------------------------------------ renderer: recipe
\* a recipe step is its type; the builder's only delay step has duration 5
addRecipeStep(steps, step) == Append(steps, step)

AddRecipeStep(step) ==
  /\ Len(recipe) < MaxRecipeLen
  /\ recipe' = addRecipeStep(recipe, step)
  /\ UNCHANGED <<isConnected, status, sensorData, isRunningRecipe,
                 isFlickerDetectionRunning, detectorVars, recipeVars, mainVars,
                 ipcVars>>

commandOf(type) ==
  CASE type = "connectUSB" -> "c"
    [] type = "disconnectUSB" -> "d"
    [] type = "sleep" -> "s"
    [] type = "wake" -> "w"

\* the IPC call a step of this type makes, if any, in a runRecipe closure whose
\* isFlickerDetectionRunning is `running`; the toggleFlickerDetection it calls
\* belongs to the same render and tests the same value
stepCall(type, running) ==
  CASE type = "startFlicker" ->
         IF ~running
         THEN << Msg("start-flicker-detection", "recipe", None) >> ELSE <<>>
    [] type = "endFlicker" ->
         IF running
         THEN << Msg("stop-flicker-detection", "recipe", None) >> ELSE <<>>
    [] type = "delay" -> <<>>
    [] OTHER -> << Msg("send-command", "recipe", Some(commandOf(type))) >>

\* the delay taken in milliseconds as it is
delayUnscaled(duration) == duration

\* setTimeout(resolve, step.duration * 1000)
delayMs(duration) == duration * 1000

\* the loop body for step k, up to its first await
ExecuteStep(r, k) ==
  LET type == r.recipe[k]
      call == stepCall(type, r.running)
      r1 == [r EXCEPT !.idx = k, !.executed = Append(@, type), !.waited = 0]
  IN IF call # <<>>
     THEN /\ run' = [r1 EXCEPT !.pc = "await"]
          /\ toMain' = toMain \o call
          /\ timer' = 0
     ELSE IF type = "delay"
     THEN /\ run' = [r1 EXCEPT !.pc = "delay"]
          /\ timer' = delayMs(DelaySeconds)
          /\ UNCHANGED toMain
     ELSE /\ run' = [r1 EXCEPT !.pc = "settle"]
          /\ timer' = SettleMs
          /\ UNCHANGED toMain

\* Continue iterating over the recipe state as it is now
ContinueOverState(r) ==
  IF r.idx < Len(recipe)
  THEN /\ ExecuteStep([r EXCEPT !.recipe = recipe], r.idx + 1)
       /\ UNCHANGED <<isRunningRecipe, executions>>
  ELSE /\ run' = IdleRun
       /\ isRunningRecipe' = FALSE
       /\ executions' = executions - 1
       /\ timer' = 0
       /\ UNCHANGED toMain

\* the loop's next iteration, or the code after the loop
Continue(r) ==
  IF r.idx < Len(r.recipe)
  THEN /\ ExecuteStep(r, r.idx + 1)
       /\ UNCHANGED <<isRunningRecipe, executions>>
  ELSE /\ run' = IdleRun
       /\ isRunningRecipe' = FALSE
       /\ executions' = executions - 1
       /\ timer' = 0
       /\ UNCHANGED toMain

\* the button disabled for an empty recipe only
runRecipeDisabledIfEmpty == Len(recipe) = 0

\* disabled={isRunningRecipe || recipe.length === 0}
runRecipeDisabled == isRunningRecipe \/ Len(recipe) = 0

\* the Run Recipe button: runRecipe up to its first await, in the closure of
\* the render that was clicked
RunRecipe ==
  /\ ~runRecipeDisabled
  /\ isRunningRecipe' = TRUE
  /\ executions' = executions + 1
  /\ ExecuteStep([IdleRun EXCEPT !.recipe = recipe,
                                 !.running = isFlickerDetectionRunning], 1)
  /\ UNCHANGED <<isConnected, status, sensorData, recipe,
                 isFlickerDetectionRunning, detectorVars, mainVars, toRenderer>>

\* runRecipe after the await of a step's IPC call: the rest of
\* toggleFlickerDetection for a flicker step, nothing for a command (its result
\* is not read), then the settle pause
RecipeResume ==
  /\ toRenderer # <<>>
  /\ run.pc = "await"
  /\ LET m == Head(toRenderer) IN
     /\ m.by = "recipe"
     /\ IF m.op = "send-command"
        THEN UNCHANGED <<isFlickerDetectionRunning, status, lastValues,
                         activeFlickers, flickerCount>>
        ELSE AfterToggle(m)
     /\ run' = [run EXCEPT !.pc = "settle",
                           !.failedStep = IF ~m.ok /\ @ = 0 THEN run.idx ELSE @]
  /\ timer' = SettleMs
  /\ toRenderer' = Tail(toRenderer)
  /\ UNCHANGED <<isConnected, sensorData, recipe, isRunningRecipe, timestamp,
                 executions, mainVars, toMain>>

\* time passes, never beyond the pending timeout
Tick ==
  /\ timer > 0
  /\ LET dt == IF timer < TickMs THEN timer ELSE TickMs IN
     /\ timer' = timer - dt
     /\ run' = [run EXCEPT !.waited = @ + dt]
  /\ UNCHANGED <<rendererVars, detectorVars, executions, mainVars, ipcVars>>

\* TimerFire in which the settle pause of the last step never resumes the loop
TimerFireInsideLoop ==
  /\ run.pc \in {"delay", "settle"}
  /\ timer = 0
  /\ IF run.pc = "delay"
     THEN /\ run' = [run EXCEPT !.pc = "settle"]
          /\ timer' = SettleMs
          /\ UNCHANGED <<isRunningRecipe, executions, toMain>>
     ELSE /\ run.idx < Len(run.recipe)
          /\ ExecuteStep([run EXCEPT !.settles = @ + 1], run.idx + 1)
          /\ UNCHANGED <<isRunningRecipe, executions>>
  /\ UNCHANGED <<isConnected, status, sensorData, recipe,
                 isFlickerDetectionRunning, detectorVars, mainVars, toRenderer>>

\* the pending setTimeout resolves: after a delay step the settle pause starts,
\* after the settle pause the loop goes on
TimerFire ==
  /\ run.pc \in {"delay", "settle"}
  /\ timer = 0
  /\ IF run.pc = "delay"
     THEN /\ run' = [run EXCEPT !.pc = "settle"]
          /\ timer' = SettleMs
          /\ UNCHANGED <<isRunningRecipe, executions, toMain>>
     ELSE Continue([run EXCEPT !.settles = @ + 1])
  /\ UNCHANGED <<isConnected, status, sensorData, recipe,
                 isFlickerDetectionRunning, detectorVars, mainVars, toRenderer>>

\* ------------------------------------------------------- specifications
\* The program as wired: samples reach the listener registered at mount.  That
\* listener never evaluates a sample, so no log call is ever made and the two
\* log handlers have nothing to serve.  connectUSB stands for the four steps
\* that send a command; they differ in the character sent.
RecipeStepTypes == {"startFlicker", "endFlicker", "connectUSB", "delay"}

Next ==
  \/ \E data \in DisplaySamples :
       HandleSensorData(mountedIsFlickerDetectionRunning, data, MaxSamples)
  \/ ToggleConnection
  \/ ToggleFlickerDetection
  \/ ToggleConnectionResume
  \/ ToggleFlickerDetectionResume
  \/ \E step \in RecipeStepTypes : AddRecipeStep(step)
  \/ RunRecipe
  \/ RecipeResume
  \/ Tick
  \/ TimerFire
  \/ ConnectPort
  \/ DisconnectPort
  \/ StartFlickerDetection
  \/ StopFlickerDetection
  \/ SendCommand
  \/ SendCommandWritten

Spec == Init /\ [][Next]_vars

\* The same program where every pending timeout expires, every call that is
\* awaited is served by main and every served call resumes the code awaiting it
\* (the event loops of the two processes are never starved).
Fairness ==
  /\ WF_vars(Tick)
  /\ WF_vars(TimerFire)
  /\ WF_vars(RecipeResume)
  /\ WF_vars(ToggleConnectionResume)
  /\ WF_vars(ToggleFlickerDetectionResume)
  /\ WF_vars(ConnectPort)
  /\ WF_vars(DisconnectPort)
  /\ WF_vars(StartFlickerDetection)
  /\ WF_vars(StopFlickerDetection)
  /\ WF_vars(SendCommand)
  /\ WF_vars(SendCommandWritten)

SpecLive == Init /\ [][Next]_vars /\ Fairness

\* handleSensorData as the function each render defines: applied to a sample
\* with the isFlickerDetectionRunning of the current render, beside the
\* connection and detection buttons.
NextDetector ==
  \/ \E data \in DetectorSamples :
       HandleSensorData(isFlickerDetectionRunning, data, MaxSamples)
  \/ ToggleConnection
  \/ ToggleFlickerDetection
  \/ ToggleConnectionResume
  \/ ToggleFlickerDetectionResume
  \/ ConnectPort
  \/ DisconnectPort
  \/ StartFlickerDetection
  \/ StopFlickerDetection
  \/ LogData
  \/ LogFlicker

SpecDetector == Init /\ [][NextDetector]_vars

\* the same handleSensorData beside recipes built from the two flicker steps
SessionStepTypes == {"startFlicker", "endFlicker"}

NextSession ==
  \/ \E data \in SessionSamples :
       HandleSensorData(isFlickerDetectionRunning, data, MaxSessionSamples)
  \/ ToggleConnection
  \/ ToggleFlickerDetection
  \/ ToggleConnectionResume
  \/ ToggleFlickerDetectionResume
  \/ \E step \in SessionStepTypes : AddRecipeStep(step)
  \/ RunRecipe
  \/ RecipeResume
  \/ Tick
  \/ TimerFire
  \/ ConnectPort
  \/ DisconnectPort
  \/ StartFlickerDetection
  \/ StopFlickerDetection
  \/ LogData
  \/ LogFlicker

SpecSession == Init /\ [][NextSession]_vars

\* the detector fed the readings of Scenario A
NextScenario ==
  \/ \E data \in ScenarioSamples :
       HandleSensorData(isFlickerDetectionRunning, data, MaxSamples)
  \/ ToggleConnection
  \/ ToggleFlickerDetection
  \/ ToggleConnectionResume
  \/ ToggleFlickerDetectionResume
  \/ ConnectPort
  \/ DisconnectPort
  \/ StartFlickerDetection
  \/ StopFlickerDetection
  \/ LogData
  \/ LogFlicker

SpecScenario == Init /\ [][NextScenario]_vars

\* --------------------------------------------------------------- claims
\* a step in which the detector evaluated a sample; its reading for sensor s
\* is sensorData'[s]
Evaluated == timestamp' # timestamp

\* |(v - initialValue) / initialValue| * 100 < 1, false when the quotient is
\* no finite number
Returned(v, initialValue) == Abs(v - initialValue) * 100 < Abs(initialValue)

SameRun(a, b) ==
  /\ a # None
  /\ b # None
  /\ a[1].startTime = b[1].startTime
  /\ a[1].initialValue = b[1].initialValue

DetectorReset ==
  /\ lastValues' = [s \in SensorIds |-> None]
  /\ activeFlickers' = [s \in SensorIds |-> None]
  /\ flickerCount' = [s \in SensorIds |-> 0]

\* C1: an open run is closed (and counted) by the first evaluated sample whose
\* value is back within 1% (strictly) of the run's initialValue; every other
\* evaluated sample leaves it open with the same startTime and initialValue,
\* and a step that evaluates no sample leaves it as it is unless it resets the
\* detector.
C1_RunClosesAtFirstReturn ==
  [][\A s \in SensorIds :
       activeFlickers[s] # None =>
         IF Evaluated
         THEN IF Returned(sensorData'[s], activeFlickers[s][1].initialValue)
              THEN /\ activeFlickers'[s] = None
                   /\ flickerCount'[s] = flickerCount[s] + 1
              ELSE SameRun(activeFlickers[s], activeFlickers'[s])
         ELSE activeFlickers'[s] = activeFlickers[s] \/ DetectorReset]_vars

\* C1 witness: the event log holds a run that stayed open over at least one
\* sample between the one that opened it and the one that closed it
C1_Witness ==
  \E i \in DOMAIN flickerRows :
    flickerRows[i].endTime >= flickerRows[i].startTime + 2

\* C2: each sensor holds at most one open run, and a sample evaluated while a
\* run is open, whatever its deviation, leaves that run's startTime and
\* initialValue as they are or closes it: it opens no other run.
C2_OneOpenRunPerSensor ==
  /\ [](\A s \in SensorIds : Len(activeFlickers[s]) <= 1)
  /\ [][\A s \in SensorIds :
          (Evaluated /\ activeFlickers[s] # None /\ activeFlickers'[s] # None)
            => SameRun(activeFlickers[s], activeFlickers'[s])]_vars

\* C2 witness: a run is still open after a later sample that deviated from its
\* predecessor by at least 50%
C2_Witness ==
  \E s \in SensorIds :
    /\ activeFlickers[s] # None
    /\ activeFlickers[s][1].startTime < timestamp
    /\ GreaterThan(activeFlickers[s][1].maxPercentChange, 50)

\* a step in which sensor s's open run was closed by an evaluated sample
Closes(s) ==
  Evaluated /\ activeFlickers[s] # None /\ activeFlickers'[s] = None

\* C3: in every step a sensor's flicker count grows by exactly one if the step
\* closes a run of that sensor and is unchanged otherwise, except in a step
\* that resets the detector (both counts 0, both refs cleared): so the count is
\* the number of runs closed since the last reset and never decreases
\* otherwise.
C3_CountIsClosedRuns ==
  [][\A s \in SensorIds :
       \/ flickerCount'[s] = flickerCount[s] + (IF Closes(s) THEN 1 ELSE 0)
       \/ ~Evaluated /\ DetectorReset]_vars

\* C3 witness: a run of sensor1 has been closed and counted while a recipe is
\* running, and sensor2 has closed none
C3_Witness ==
  /\ flickerCount["sensor1"] = 1
  /\ flickerCount["sensor2"] = 0
  /\ isRunningRecipe
  /\ run.idx = 2

IsLogFlicker(m) == m.op = "log-flicker"

\* the log-flicker calls in channel q
LogFlickerCalls(q) == Cardinality({i \in DOMAIN q : IsLogFlicker(q[i])})

\* C9: every run the detector closes is handed to log-flicker exactly once,
\* and every log-flicker call appends its row to the event log.
C9_ClosedRunLoggedOnce ==
  [][/\ Evaluated =>
          /\ LogFlickerCalls(toMain') - LogFlickerCalls(toMain)
               = Cardinality({s \in SensorIds : Closes(s)})
          /\ \A s \in SensorIds :
               Closes(s) =>
                 \E i \in DOMAIN toMain' :
                   /\ i > Len(toMain)
                   /\ IsLogFlicker(toMain'[i])
                   /\ toMain'[i].data[1].sensor = s
                   /\ toMain'[i].data[1].startTime
                        = activeFlickers[s][1].startTime
     /\ (Serving("log-flicker") /\ toMain' = Tail(toMain)) =>
          flickerRows' = Append(flickerRows, Head(toMain).data[1])]_vars

\* C10: a run that is open while the renderer's session is stopped is never
\* closed: every step leaves it as it is with the session still stopped, or
\* drops it in a reset of the detector; no step counts it or hands it to
\* log-flicker.
C10_StoppedRunDiscarded ==
  [][\A s \in SensorIds :
       (~isFlickerDetectionRunning /\ activeFlickers[s] # None) =>
         /\ LogFlickerCalls(toMain') <= LogFlickerCalls(toMain)
         /\ \/ /\ activeFlickers'[s] = activeFlickers[s]
               /\ flickerCount'[s] = flickerCount[s]
               /\ ~isFlickerDetectionRunning'
            \/ DetectorReset]_vars

\* C10 witness: the session was stopped with a run of sensor1 open
C10_Witness ==
  /\ ~isFlickerDetectionRunning
  /\ status = <<"Flicker Detection Stopped">>
  /\ activeFlickers["sensor1"] # None

\* a step in which runRecipe starts its next action
StartsStep == run'.pc # "idle" /\ run'.idx # run.idx

\* a step in which runRecipe returns
Returns == isRunningRecipe /\ ~isRunningRecipe'

\* C4: once an operation awaited by a recipe action has reported failure,
\* runRecipe executes no later action: the action in progress stays the one
\* that failed until runRecipe returns.
C4_FailureHaltsRecipe == run.failedStep # 0 => run.idx = run.failedStep

\* C5: actions start in recipe order, each one only after the previous action
\* and its full settle pause; a delay action lasts at least its duration in
\* seconds on top of that; and runRecipe returns to Idle only after every
\* action of the recipe and one settle pause per action, leaving no recipe
\* error in the status.
C5_SequentialInOrder ==
  [][/\ StartsStep =>
          /\ run'.idx = run.idx + 1
          /\ run'.executed = SubSeq(run'.recipe, 1, run'.idx)
          /\ run.idx > 0 =>
               /\ run.pc = "settle" /\ timer = 0
               /\ run'.settles = run.idx
               /\ run.waited >= SettleMs
                    + (IF run.recipe[run.idx] = "delay"
                       THEN DelaySeconds * 1000 ELSE 0)
     /\ Returns =>
          /\ run.executed = run.recipe
          /\ run.pc = "settle" /\ timer = 0
          /\ run.settles + 1 = Len(run.recipe)
          /\ run.waited >= SettleMs
               + (IF run.recipe[run.idx] = "delay"
                  THEN DelaySeconds * 1000 ELSE 0)
          /\ status'[1] # "Recipe Error"]_vars

\* C5 witness: a recipe whose operations all succeeded is about to return,
\* after a flicker start and a delay
C5_Witness ==
  /\ run.pc = "settle" /\ timer = 0
  /\ run.recipe = <<"startFlicker", "delay">>
  /\ run.idx = 2
  /\ run.failedStep = 0
  /\ isFlickerDetectionRunning

\* C6: a startFlicker action calls start-flicker-detection exactly when no
\* session is running at the moment it executes, and an endFlicker action
\* calls stop-flicker-detection exactly when one is.
C6_FlickerStepSeesCurrentSession ==
  [][StartsStep =>
       /\ run'.recipe[run'.idx] = "startFlicker" =>
            (toMain' # toMain <=> ~isFlickerDetectionRunning)
       /\ run'.recipe[run'.idx] = "endFlicker" =>
            (toMain' # toMain <=> isFlickerDetectionRunning)]_vars

\* C7: at most one runRecipe call is in progress, isRunningRecipe says whether
\* one is, and while one is in progress its recipe stays the same and its
\* actions advance one at a time.
C7_OneRecipeAtATime ==
  /\ [](executions <= 1 /\ (isRunningRecipe <=> executions = 1)
          /\ (isRunningRecipe <=> run.pc # "idle"))
  /\ [][(run.pc # "idle" /\ run'.pc # "idle") =>
          /\ run'.recipe = run.recipe
          /\ run'.idx \in {run.idx, run.idx + 1}]_vars

\* C7 witness: a recipe is running, awaiting a reply, in its second action
C7_Witness ==
  /\ isRunningRecipe
  /\ executions = 1
  /\ run.pc = "await"
  /\ run.idx = 2

Resumes == toRenderer # <<>> /\ toRenderer' = Tail(toRenderer)

\* C11: the step in which the renderer learns that a session start succeeded
\* (after the button or a recipe step, first start or restart) and the step in
\* which it learns that a disconnect completed leave both lastValues and both
\* activeFlickers none and both counts 0, and evaluate no sample.
C11_ResetOnStartAndDisconnect ==
  [][(/\ Resumes
      /\ \/ Head(toRenderer).op = "start-flicker-detection"
               /\ Head(toRenderer).ok
         \/ Head(toRenderer).op = "disconnect-port")
       => DetectorReset /\ ~Evaluated]_vars

\* C11 witness: a session restarted by a recipe step after samples were
\* evaluated, the detector cleared
C11_Witness ==
  /\ timestamp >= 2
  /\ isFlickerDetectionRunning
  /\ status = <<"Flicker Detection Running">>
  /\ run.pc = "settle"
  /\ lastValues = [s \in SensorIds |-> None]

\* the log-flicker calls a step adds to toMain
NewCalls == SubSeq(toMain', Len(toMain) + 1, Len(toMain'))

\* the flickerData a step hands to log-flicker for sensor s
Emitted(s) ==
  {NewCalls[i].data[1] : i \in {j \in DOMAIN NewCalls :
                                  /\ IsLogFlicker(NewCalls[j])
                                  /\ NewCalls[j].data[1].sensor = s}}

\* C12: with sensor1 at 100 twice after a reset (lastValue 100, no run), the
\* sample 80 opens a run with initialValue 100 and minValue 80 and emits
\* nothing; the sample 100 that follows closes it and emits exactly one
\* flickerData, with percentChange "20.00" and minimumValue "80.000"; the
\* first sample after a reset and a second 100 open no run.
C12_ScenarioA ==
  [][Evaluated =>
       LET s == "sensor1"
           v == sensorData'[s]
       IN /\ (lastValues[s] = None /\ v = 100) =>
               /\ lastValues'[s] = Some(100)
               /\ activeFlickers'[s] = activeFlickers[s]
               /\ Emitted(s) = {}
          /\ (lastValues[s] = Some(100) /\ activeFlickers[s] = None /\ v = 100)
               => activeFlickers'[s] = None /\ Emitted(s) = {}
          /\ (lastValues[s] = Some(100) /\ activeFlickers[s] = None /\ v = 80)
               => /\ activeFlickers'[s] # None
                  /\ activeFlickers'[s][1].startTime = timestamp'
                  /\ activeFlickers'[s][1].initialValue = 100
                  /\ activeFlickers'[s][1].minValue = 80
                  /\ Emitted(s) = {}
                  /\ flickerCount'[s] = flickerCount[s]
          /\ (/\ lastValues[s] = Some(80)
              /\ activeFlickers[s] # None
              /\ activeFlickers[s][1].startTime = timestamp
              /\ activeFlickers[s][1].initialValue = 100
              /\ v = 100)
               => /\ activeFlickers'[s] = None
                  /\ flickerCount'[s] = flickerCount[s] + 1
                  /\ Cardinality(Emitted(s)) = 1
                  /\ Len(NewCalls) = 2
                  /\ \A e \in Emitted(s) :
                       /\ e.percentChange = "20.00"
                       /\ e.minimumValue = "80.000"
                       /\ e.initialValue = "100.000"
                       /\ e.startTime = timestamp
                       /\ e.endTime = timestamp']_vars

\* C13: a sample evaluated for a sensor whose previous value is 0 leaves the
\* sensor's activeFlicker as it is (it opens no run and changes, or closes, no
\* open run) and its count unchanged, whatever its value; only lastValue
\* becomes the sample's value.
C13_ZeroPreviousSkipped ==
  [][\A s \in SensorIds :
       (Evaluated /\ lastValues[s] = Some(0)) =>
         /\ activeFlickers'[s] = activeFlickers[s]
         /\ flickerCount'[s] = flickerCount[s]
         /\ lastValues'[s] = Some(sensorData'[s])]_vars

\* a step in which a sample reached handleSensorData (seen when it changes the
\* displayed reading or is evaluated)
Delivered == sensorData' # sensorData \/ Evaluated

IsLogData(m) == m.op = "log-data"

\* C14: a sample delivered while the session is active (in the renderer and in
\* main) is evaluated and makes exactly one log-data call; a sample delivered
\* while it is active in neither is not evaluated and makes no call; and a
\* log-data call appends one row to the sample log if main's session is
\* active, none otherwise.
C14_ActiveSampleLogged ==
  [][/\ (Delivered /\ isFlickerDetectionRunning /\ isFlickerDetectionActive) =>
          /\ Evaluated
          /\ Cardinality({i \in DOMAIN NewCalls : IsLogData(NewCalls[i])}) = 1
     /\ (Delivered /\ ~isFlickerDetectionRunning /\ ~isFlickerDetectionActive)
          => ~Evaluated /\ toMain' = toMain
     /\ (Serving("log-data") /\ toMain' = Tail(toMain)) =>
          sensorRows' = sensorRows + (IF isFlickerDetectionActive THEN 1 ELSE 0)
    ]_vars

\* C15: runRecipe iterates over the recipe as it was when Run Recipe was
\* clicked: that sequence stays the one being executed until runRecipe returns,
\* the actions executed are always its first run.idx steps, a step added in the
\* meantime changes nothing of the execution, and runRecipe returns having
\* executed exactly the steps of the start.
C15_RunningRecipeImmutable ==
  [][/\ (run.pc = "idle" /\ run'.pc # "idle") => run'.recipe = recipe
     /\ (run.pc # "idle" /\ run'.pc # "idle") => run'.recipe = run.recipe
     /\ run'.pc # "idle" =>
          run'.executed = SubSeq(run'.recipe, 1, run'.idx)
     /\ (run.pc # "idle" /\ recipe' # recipe) =>
          UNCHANGED <<run, timer, toMain, isRunningRecipe>>
     /\ Returns => run.executed = run.recipe]_vars

\* C15 witness: a step was added while a one-step recipe was running, and the
\* execution is in the settle pause of its last step
C15_Witness ==
  /\ isRunningRecipe
  /\ Len(run.recipe) = 1
  /\ Len(recipe) = 2
  /\ run.pc = "settle"
  /\ run.idx = 1

\* C16: every started runRecipe call eventually returns (isRunningRecipe
\* becomes false again), whatever the results of the operations it awaited,
\* and isRunningRecipe turns false in no other step than the one in which
\* the settle pause of the last action has expired.
C16_RecipeTerminates ==
  /\ isRunningRecipe ~> ~isRunningRecipe
  /\ [][Returns => /\ run.pc = "settle" /\ timer = 0
                   /\ run.idx = Len(run.recipe)
                   /\ run'.pc = "idle"]_vars

\* C16 witness: a recipe whose first awaited operation failed is at the end of
\* the settle pause of its last action, about to return
C16_Witness ==
  /\ isRunningRecipe
  /\ run.failedStep = 1
  /\ run.idx = 2
  /\ run.pc = "settle"
  /\ timer = 0

\* |(p - v) / p| * 100 > 1; for p = 0 the quotient is infinite unless v = 0
Deviates(p, v) == IF p = 0 THEN v # 0 ELSE Abs(p - v) * 100 > Abs(p)

\* a step in which an evaluated sample leaves sensor s with a run it had not
Opens(s) ==
  Evaluated /\ activeFlickers[s] = None /\ activeFlickers'[s] # None

\* C17: an evaluated sample v opens a run for a sensor exactly when the sensor
\* has a previous value p since the last reset, no run is open and
\* |(p - v)/p| * 100 > 1; the new run starts at this sample with initialValue p
\* and minValue v.
C17_OpensIffDeviates ==
  [][\A s \in SensorIds :
       Evaluated =>
         /\ Opens(s) <=> /\ lastValues[s] # None
                         /\ activeFlickers[s] = None
                         /\ Deviates(lastValues[s][1], sensorData'[s])
         /\ Opens(s) => /\ activeFlickers'[s][1].initialValue = lastValues[s][1]
                        /\ activeFlickers'[s][1].minValue = sensorData'[s]
                        /\ activeFlickers'[s][1].startTime = timestamp']_vars

\* C17 witness: after 100 and 99 (exactly 1%, no run) the sample 98 has just
\* opened sensor1's run, whose initialValue is the preceding 99
C17_Witness ==
  /\ timestamp = 3
  /\ activeFlickers["sensor1"] # None
  /\ activeFlickers["sensor1"][1].startTime = 3
  /\ activeFlickers["sensor1"][1].initialValue = 99
  /\ activeFlickers["sensor1"][1].minValue = 98

\* C18: no sample both opens and closes a run: a sample that counts a run or
\* hands one to log-flicker found that run open, and every flickerData handed
\* to log-flicker, like every row of the event log, ends at a sample later than
\* the one that opened it.
C18_NoOpenAndCloseAtOnce ==
  /\ [][\A s \in SensorIds :
          Evaluated =>
            /\ (flickerCount'[s] # flickerCount[s] \/ Emitted(s) # {})
                 => activeFlickers[s] # None
            /\ \A e \in Emitted(s) : e.startTime < e.endTime]_vars
  /\ [](\A i \in DOMAIN flickerRows :
          flickerRows[i].startTime < flickerRows[i].endTime)

\* C18 witness: the event log holds a run closed by the sample right after the
\* one that opened it
C18_Witness ==
  \E i \in DOMAIN flickerRows :
    flickerRows[i].endTime = flickerRows[i].startTime + 1

\* a start, stop or disconnect call is waiting for main or for its resumption
SessionOpInFlight ==
  \E q \in {toMain, toRenderer} :
    \E i \in DOMAIN q :
      q[i].op \in {"start-flicker-detection", "stop-flicker-detection",
                   "disconnect-port"}

\* C19: whenever no start, stop or disconnect operation is in flight, the
\* renderer's isFlickerDetectionRunning equals main's isFlickerDetectionActive.
C19_FlagsAgree ==
  ~SessionOpInFlight => (isFlickerDetectionRunning <=> isFlickerDetectionActive)

\* a step in which main calls setInterval: connect-port once the port is open,
\* or send-command after a successful write with dataInterval set
SetsInterval ==
  \/ Serving("connect-port") /\ toMain' = Tail(toMain) /\ portOpen'
  \/ /\ pendingWrite # None /\ pendingWrite' = None
     /\ toRenderer'[Len(toRenderer')].ok
     /\ dataInterval # "undefined"

\* C20: at most one heartbeat interval is live at any time (setInterval is
\* never called while the interval dataInterval refers to is live), and none
\* is live while a completed disconnect-port is waiting to resume the renderer
\* with the port still closed.
C20_OneHeartbeat ==
  /\ [][SetsInterval => dataInterval # "live"]_vars
  /\ []((/\ ~portOpen
         /\ \E i \in DOMAIN toRenderer : toRenderer[i].op = "disconnect-port")
          => dataInterval # "live")

====
